---- MODULE Spec2Model ----
(***************************************************************************)
(* Liquibase Control Tower: the working directory (tag file, category      *)
(* directories, descriptors, payloads, category manifests, root manifest), *)
(* the check run of StructureChecker over the server's check endpoints,    *)
(* the suggestion resolver, the fix executor and the structure builder.    *)
(*                                                                         *)
(* File names are modelled by their parts:                                 *)
(*   <<v, c>>      changelog-<v>-<C>.xml  (category manifest)              *)
(*   <<d, u>>      the include path "d/u.xml", or "u.xml" when d = ""      *)
(*   descr[c][u]   <c>/<u>.xml            payload[c][u]  <c>/sql/<u>.sql   *)
(***************************************************************************)
EXTENDS Integers, Sequences, FiniteSets, TLC

VARIABLES fs, findings, calls, checked, hist, lastFix, req, io

vars == <<fs, findings, calls, checked, hist, lastFix, req, io>>

(************************* bounds and input domains ************************)
MaxBuilds == 2
MaxFixes == 2
MaxEnv == 1
MaxFiles == 2
MaxRenames == 1

\* StructureChecker.CATEGORIES, cut to its first two entries
CATEGORIES == <<"tables", "views">>
Categories == {CATEGORIES[i] : i \in DOMAIN CATEGORIES}
\* unit names in directory-listing order
UnitNames == <<"dept", "emp">>
Units == {UnitNames[i] : i \in DOMAIN UnitNames}
\* version tokens made of digits; "49" is the one the fix executor hard-codes
DigitTokens == {"49", "50"}
Versions == DigitTokens
NullVersion == "null"
Authors == {"jdoe"}
\* file.content of a build request; "" is the falsy "no content"
Contents == {"", "sqlA"}
IncludeDirs == Categories \cup {""}
IncludePaths == IncludeDirs \X Units
ManifestNames == Versions \X Categories
\* <<v, c, "lower">>: changelog-<v>-<c>.xml with the category in lower case
LowerNames == {<<v, c, "lower">> : v \in Versions, c \in Categories}
AllManifestNames == ManifestNames \cup LowerNames
TagInclude == <<"tag-database", "xml">>

Range(s) == {s[i] : i \in DOMAIN s}
Count(s, x) == Cardinality({i \in DOMAIN s : s[i] = x})
SeqMap(Op(_), s) == [i \in DOMAIN s |-> Op(s[i])]

(******************************* file system *******************************)
NoTag == [exists |-> FALSE, token |-> ""]
NoDescriptor == [exists |-> FALSE, id |-> "", author |-> "", path |-> ""]
NoPayload == [exists |-> FALSE, content |-> ""]
NoManifest == [exists |-> FALSE, includes |-> <<>>, closed |-> FALSE, formatted |-> FALSE]

EmptyDirectory ==
  [tag |-> NoTag,
   dirs |-> {},
   unreadable |-> {},
   descr |-> [c \in Categories |-> [u \in Units |-> NoDescriptor]],
   payload |-> [c \in Categories |-> [u \in Units |-> NoPayload]],
   manifest |-> [m \in AllManifestNames |-> NoManifest],
   root |-> NoManifest]

\* fs.access(join(workingDirectory, `changelog-${version}-${CATEGORY}.xml`))
manifestAt(f, v, c) ==
  IF <<v, c>> \in ManifestNames THEN f.manifest[<<v, c>>] ELSE NoManifest

includeTargetExistsInCategory(f, c, p) == f.descr[c][p[2]].exists

\* the file an include path names, seen from category c:
\* file.includes('/') ? join(workingDirectory, file) : join(workingDirectory, category, file)
includeTargetExists(f, c, p) ==
  IF p[1] # ""
  THEN p[1] \in Categories /\ f.descr[p[1]][p[2]].exists
  ELSE f.descr[c][p[2]].exists

(******************************** findings *********************************)
NoName == <<"", "">>
Finding(t, c, file, ref) == [tmpl |-> t, category |-> c, file |-> file, ref |-> ref]
\* 'Missing tag-database.xml'
MissingTagMsg == Finding("MissingTag", "system", NoName, NoName)
\* `XML file '${relativePath}' exists but is not declared in ${masterChangelog}`
XmlNotDeclaredMsg(c, u, v) == Finding("XmlNotDeclared", c, <<c, u>>, <<v, c>>)
\* `SQL file '${category}/sql/${sqlFile}' has no corresponding XML file`
SqlNoXmlMsg(c, u) == Finding("SqlNoXml", c, <<c, u>>, NoName)
\* `File '${file}' referenced in ${masterChangelog} does not exist`
RefMissingMsg(c, p, v) == Finding("RefMissing", c, p, <<v, c>>)
\* `SQL file '${sqlPath}' referenced in '${category}/${xmlFile}' does not exist`
SqlRefMissingMsg(c, u, q) == Finding("SqlRefMissing", c, <<"sql", q>>, <<c, u>>)

\* `Failed to check ${category}: ${error.message}`
FailedMsg(c) == Finding("FailedToCheck", "system", <<c, "">>, NoName)
\* 'Main changelog file not found: changelog-SIO2-all.xml'
MainNotFoundMsg == Finding("MainNotFound", "system", NoName, NoName)
\* `Existing changelog '${categoryChangelog}' is not declared in changelog-SIO2-all.xml`
ChangelogNotDeclaredMsg(v, c) == Finding("ChangelogNotDeclared", "main_changelog", <<v, c>>, NoName)

\* the spec's finding kind of a message template
Kind(f) ==
  CASE f.tmpl = "MissingTag" -> "MissingTagFile"
    [] f.tmpl = "XmlNotDeclared" -> "UndeclaredDescriptor"
    [] f.tmpl = "SqlNoXml" -> "OrphanedPayload"
    [] f.tmpl = "RefMissing" -> "DanglingReference"
    [] f.tmpl = "SqlRefMissing" -> "DanglingPayloadReference"
    [] f.tmpl = "ChangelogNotDeclared" -> "UndeclaredCategoryManifest"
    [] OTHER -> "Other"

(***************************** check endpoints *****************************)
\* POST /api/get-version
getVersion(f) ==
  IF f.tag.exists /\ f.tag.token \in DigitTokens
  THEN [error |-> FALSE, version |-> f.tag.token]
  ELSE [error |-> TRUE, version |-> NullVersion]

declaredFiles49(f, v, c) ==
  IF manifestAt(f, "49", c).exists THEN Range(manifestAt(f, "49", c).includes) ELSE {}

\* declaredFiles: every file="..." of the category manifest
declaredFiles(f, v, c) ==
  IF manifestAt(f, v, c).exists THEN Range(manifestAt(f, v, c).includes) ELSE {}

\* !declaredFiles.has(relativePath) && !declaredFiles.has(shortPath), negated
isDeclared(declared, c, u) == <<c, u>> \in declared \/ <<"", u>> \in declared

\* readdir(categoryDir) filtered to descriptors
xmlFiles(f, c) ==
  IF c \in f.dirs
  THEN SelectSeq(UnitNames, LAMBDA u : f.descr[c][u].exists)
  ELSE <<>>

\* readdir(sqlDir) filtered to *.sql
sqlFiles(f, c) ==
  IF c \in f.dirs
  THEN SelectSeq(UnitNames, LAMBDA u : f.payload[c][u].exists)
  ELSE <<>>

checkOrphanedByDeclaration(f, c, v) ==
  LET declared == declaredFiles(f, v, c)
      undeclared == SelectSeq(xmlFiles(f, c), LAMBDA u : ~isDeclared(declared, c, u))
      orphans == SelectSeq(sqlFiles(f, c), LAMBDA u : ~isDeclared(declared, c, u))
  IN  IF c \in f.dirs /\ c \in f.unreadable
      THEN [error |-> TRUE, logs |-> <<>>]
      ELSE [error |-> FALSE,
            logs |-> SeqMap(LAMBDA u : XmlNotDeclaredMsg(c, u, v), undeclared)
                       \o SeqMap(LAMBDA u : SqlNoXmlMsg(c, u), orphans)]

\* POST /api/check-orphaned: res.json({errors, logs}), or status 500 with
\* {error} when readdir(sqlDir) throws
checkOrphaned(f, c, v) ==
  LET declared == declaredFiles(f, v, c)
      undeclared == SelectSeq(xmlFiles(f, c), LAMBDA u : ~isDeclared(declared, c, u))
      orphans == SelectSeq(sqlFiles(f, c), LAMBDA u : ~f.descr[c][u].exists)
  IN  IF c \in f.dirs /\ c \in f.unreadable
      THEN [error |-> TRUE, logs |-> <<>>]
      ELSE [error |-> FALSE,
            logs |-> SeqMap(LAMBDA u : XmlNotDeclaredMsg(c, u, v), undeclared)
                       \o SeqMap(LAMBDA u : SqlNoXmlMsg(c, u), orphans)]

\* POST /api/check-references
checkReferences(f, c, v) ==
  LET master == manifestAt(f, v, c)
      refs == IF master.exists THEN master.includes ELSE <<>>
      dangling == SelectSeq(refs, LAMBDA p : ~includeTargetExists(f, c, p))
      noSql == SelectSeq(xmlFiles(f, c),
                 LAMBDA u : ~f.payload[c][f.descr[c][u].path].exists)
  IN  [error |-> FALSE,
       logs |-> SeqMap(LAMBDA p : RefMissingMsg(c, p, v), dangling)
                  \o SeqMap(LAMBDA u : SqlRefMissingMsg(c, u, f.descr[c][u].path), noSql)]

\* the category manifests check-main-changelog looks for
MainCategories == CATEGORIES

\* POST /api/check-main-changelog
checkMainChangelog(f, v) ==
  IF ~f.root.exists THEN <<MainNotFoundMsg>>
  ELSE SeqMap(LAMBDA c : ChangelogNotDeclaredMsg(v, c),
              SelectSeq(MainCategories,
                        LAMBDA c : manifestAt(f, v, c).exists
                                     /\ <<v, c>> \notin Range(f.root.includes)))

(************************ StructureChecker.check ***************************)
\* the tag check: its log lines of type error, and this.version afterwards
tagCheck(f) ==
  IF getVersion(f).error
  THEN [logs |-> <<MissingTagMsg>>, version |-> NullVersion]
  ELSE [logs |-> <<>>, version |-> getVersion(f).version]

RECURSIVE categoryLoop(_, _, _)
\* for (const category of this.CATEGORIES): both endpoints, in order; a
\* response without logs throws in forEach and the catch logs the failure
categoryLoop(f, v, i) ==
  IF i > Len(CATEGORIES) THEN [logs |-> <<>>, calls |-> <<>>]
  ELSE LET c == CATEGORIES[i]
           rest == categoryLoop(f, v, i + 1)
       IN  IF checkOrphaned(f, c, v).error
           THEN [logs |-> <<FailedMsg(c)>> \o rest.logs,
                 calls |-> <<<<"check-orphaned", c>>>> \o rest.calls]
           ELSE IF checkReferences(f, c, v).error
           THEN [logs |-> checkOrphaned(f, c, v).logs \o <<FailedMsg(c)>> \o rest.logs,
                 calls |-> <<<<"check-orphaned", c>>, <<"check-references", c>>>>
                             \o rest.calls]
           ELSE [logs |-> checkOrphaned(f, c, v).logs \o checkReferences(f, c, v).logs
                            \o rest.logs,
                 calls |-> <<<<"check-orphaned", c>>, <<"check-references", c>>>>
                             \o rest.calls]

\* one check run: the error log lines in order and the category calls made
check(f) ==
  LET t == tagCheck(f)
      l == categoryLoop(f, t.version, 1)
  IN  [logs |-> t.logs \o l.logs, calls |-> l.calls]

(*************************** suggestion resolver ***************************)
NoDetails ==
  [xmlFile |-> NoName, changelogFile |-> NoName, sqlFile |-> NoName,
   category |-> "", version |-> "", workingDirectory |-> FALSE]
NoSuggestion == [action |-> "none", details |-> NoDetails]

\* getSuggestion(errorMessage): the first handler whose test and regular
\* expression both match the message; window.workingDirectory is set by
\* handleCheck before the run
getSuggestion(m) ==
  CASE m.tmpl = "MissingTag" ->
         \* handler 3; the request carries no details
         [action |-> "create-tag-database", details |-> NoDetails]
    [] m.tmpl = "SqlNoXml" ->
         \* handler 4: category: sqlFile.split('/')[0]
         [action |-> "create-xml-and-reference",
          details |-> [NoDetails EXCEPT !.sqlFile = m.file, !.category = m.file[1],
                                        !.workingDirectory = TRUE]]
    [] m.tmpl = "RefMissing" /\ m.ref[1] \in DigitTokens ->
         \* handler 5: needs /changelog-\d+-([A-Z_]+)\.xml/
         [action |-> "create-referenced-file",
          details |-> [NoDetails EXCEPT !.xmlFile = m.file, !.category = m.ref[2],
                                        !.version = m.ref[1], !.workingDirectory = TRUE]]
    [] m.tmpl = "XmlNotDeclared" /\ m.ref[1] \in DigitTokens ->
         \* handlers 2 and 6 test true but their expressions do not match;
         \* the last handler needs (changelog-\d+-[A-Z_]+\.xml)
         [action |-> "add-to-changelog",
          details |-> [NoDetails EXCEPT !.xmlFile = m.file, !.changelogFile = m.ref,
                                        !.workingDirectory = TRUE]]
    [] OTHER -> NoSuggestion

(****************************** fix executor *******************************)
descriptorBy(author, u) == [exists |-> TRUE, id |-> u, author |-> author, path |-> u]

\* the manifest the created descriptor is added to: changelog-49-<CATEGORY>.xml
fixChangelog(d) == <<"49", d.category>>

\* case 'create-xml-and-reference'
createXmlAndReference(f, d) ==
  IF d.sqlFile = NoName \/ d.category = "" \/ ~d.workingDirectory
  THEN [fs |-> f, status |-> 400]
  ELSE LET u == d.sqlFile[2]
           c == d.category
           m == fixChangelog(d)
       IN  IF c \notin f.dirs
           THEN [fs |-> f, status |-> 500]
           ELSE LET f1 == [f EXCEPT !.descr[c][u] = descriptorBy("system", u)]
                    f2 == IF manifestAt(f1, m[1], m[2]).exists
                          THEN [f1 EXCEPT !.manifest[m].includes = Append(@, <<c, u>>)]
                          ELSE f1
                IN  [fs |-> f2, status |-> 200]

\* xmlFormatter(changelogContent, ...): the includes are kept, the layout changes
xmlFormat(m) == [m EXCEPT !.formatted = TRUE]

\* changelogContent.includes(`file="${xmlFile}"`)
alreadyIncluded(m, x) == x \in Range(m.includes)

addToChangelogOnly(f, d) ==
  IF d.xmlFile = NoName \/ d.changelogFile = NoName \/ ~d.workingDirectory
  THEN [fs |-> f, status |-> 400]
  ELSE LET m == manifestAt(f, d.changelogFile[1], d.changelogFile[2])
       IN  IF ~m.exists THEN [fs |-> f, status |-> 500]
           ELSE IF alreadyIncluded(m, d.xmlFile) THEN [fs |-> f, status |-> 200]
           ELSE IF ~m.closed THEN [fs |-> f, status |-> 500]
           ELSE [fs |-> [f EXCEPT !.manifest[d.changelogFile] =
                            xmlFormat([m EXCEPT !.includes = <<d.xmlFile>>])],
                 status |-> 200]

\* case 'add-to-changelog'
addToChangelog(f, d) ==
  IF d.xmlFile = NoName \/ d.changelogFile = NoName \/ ~d.workingDirectory
  THEN [fs |-> f, status |-> 400]
  ELSE LET m == manifestAt(f, d.changelogFile[1], d.changelogFile[2])
       IN  IF ~m.exists THEN [fs |-> f, status |-> 500]
           ELSE IF alreadyIncluded(m, d.xmlFile) THEN [fs |-> f, status |-> 200]
           ELSE IF ~m.closed THEN [fs |-> f, status |-> 500]
           ELSE [fs |-> [f EXCEPT !.manifest[d.changelogFile] =
                            xmlFormat([m EXCEPT !.includes = Append(@, d.xmlFile)])],
                 status |-> 200]

\* POST /api/apply-fix
applyFix(f, action, d) ==
  CASE action = "create-xml-and-reference" -> createXmlAndReference(f, d)
    [] action = "add-to-changelog" -> addToChangelog(f, d)
    [] OTHER -> [fs |-> f, status |-> 400]

(******************* rename fixes (server copy part_009) *******************)
\* mainContent.replace(changelogFile, newFile): the first occurrence only
replaceFirst(s, old, new) ==
  IF old \notin Range(s) THEN s
  ELSE LET i == CHOOSE k \in DOMAIN s : s[k] = old /\ \A j \in 1..(k - 1) : s[j] # old
       IN  [s EXCEPT ![i] = new]

\* fs.rename(oldPath, newPath): an existing target is replaced
rename(f, old, new) ==
  IF old = new THEN f
  ELSE [f EXCEPT !.manifest[new] = f.manifest[old], !.manifest[old] = NoManifest]

\* the rename, then the update of the reference in changelog-SIO2-all.xml;
\* rootWritable: whether the write of the root manifest succeeds
renameAndUpdate(f, old, new, rootWritable) ==
  IF ~f.manifest[old].exists THEN [fs |-> f, status |-> 500]
  ELSE IF ~rename(f, old, new).root.exists \/ ~rootWritable
       THEN [fs |-> rename(f, old, new), status |-> 500]
       ELSE [fs |-> [rename(f, old, new) EXCEPT
                       !.root.includes = replaceFirst(@, old, new)],
             status |-> 200]

\* changelogFile.replace(/changelog-\d+/, `changelog-${correctVersion}`)
withVersion(n, v) == IF Len(n) = 3 THEN <<v, n[2], n[3]>> ELSE <<v, n[2]>>

\* `changelog-${version}-${category.toUpperCase()}.xml`
withUpperCategory(n) == <<n[1], n[2]>>

\* case 'fix-version-number'
fixVersionNumber(f, d, rootWritable) ==
  IF d.changelogFile = NoName \/ ~d.workingDirectory \/ ~f.tag.exists
  THEN [fs |-> f, status |-> 500]
  ELSE LET correctVersion == IF f.tag.token \in DigitTokens THEN f.tag.token ELSE "49"
       IN  renameAndUpdate(f, d.changelogFile, withVersion(d.changelogFile, correctVersion),
                           rootWritable)

\* case 'fix-category-name'
fixCategoryName(f, d, rootWritable) ==
  IF d.changelogFile = NoName \/ ~d.workingDirectory
  THEN [fs |-> f, status |-> 500]
  ELSE renameAndUpdate(f, d.changelogFile, withUpperCategory(d.changelogFile), rootWritable)

(**************************** structure builder ****************************)
\* config.categories[c].files: the request's files of category c, in order
filesOf(cfg, c) == SelectSeq(cfg.files, LAMBDA x : x.category = c)

\* file.content || `-- Add your SQL here for ${file.name}`
sqlContent(x) == IF x.content # "" THEN x.content ELSE "stub"

writePayloadAlways(f, c, x) ==
  [f EXCEPT !.payload[c][x.name] = [exists |-> TRUE, content |-> sqlContent(x)]]

\* if (!existsSync(fileSqlPath)) writeFile(fileSqlPath, sqlContent)
writePayload(f, c, x) ==
  IF f.payload[c][x.name].exists THEN f
  ELSE [f EXCEPT !.payload[c][x.name] = [exists |-> TRUE, content |-> sqlContent(x)]]

\* if (!existsSync(xmlPath)) writeFile(xmlPath, xmlContent)
writeDescriptor(f, c, x, author) ==
  IF f.descr[c][x.name].exists THEN f
  ELSE [f EXCEPT !.descr[c][x.name] = descriptorBy(author, x.name)]

addIncludeAlways(incs, p) == Append(incs, p)

\* if (!existingIncludes.includes(includePath)) existingIncludes.push(includePath)
addInclude(incs, p) == IF p \in Range(incs) THEN incs ELSE Append(incs, p)

RECURSIVE fileLoop(_, _, _, _, _, _)
\* for (const file of category.files)
fileLoop(f, incs, c, files, author, i) ==
  IF i > Len(files) THEN [fs |-> f, includes |-> incs]
  ELSE fileLoop(writePayload(writeDescriptor(f, c, files[i], author), c, files[i]),
                addInclude(incs, <<c, files[i].name>>), c, files, author, i + 1)

\* the manifest name the builder writes: changelog-${config.version}-<CATEGORY>.xml
buildChangelog(cfg, c) == <<cfg.version, c>>

\* one category of the request: directories, descriptors, payloads, manifest
buildCategory(f, cfg, c) ==
  IF filesOf(cfg, c) = <<>> THEN f
  ELSE LET m == buildChangelog(cfg, c)
           existing == IF f.manifest[m].exists THEN f.manifest[m].includes ELSE <<>>
           r == fileLoop([f EXCEPT !.dirs = @ \cup {c}], existing, c,
                         filesOf(cfg, c), cfg.author, 1)
       IN  [r.fs EXCEPT !.manifest[m] =
              [exists |-> TRUE, includes |-> r.includes, closed |-> TRUE,
               formatted |-> FALSE]]

RECURSIVE buildCategories(_, _, _)
\* for (const category of config.categories)
buildCategories(f, cfg, i) ==
  IF i > Len(CATEGORIES) THEN f
  ELSE buildCategories(buildCategory(f, cfg, CATEGORIES[i]), cfg, i + 1)

\* the category manifests of the request's non-empty categories, in order
requestChangelogs(cfg) ==
  SeqMap(LAMBDA c : buildChangelog(cfg, c),
         SelectSeq(CATEGORIES, LAMBDA c : filesOf(cfg, c) # <<>>))

buildRootKeep(f, cfg) ==
  IF f.root.exists
  THEN [fs |-> f, status |-> 200]
  ELSE [fs |-> [f EXCEPT !.root =
                  [exists |-> TRUE, includes |-> <<TagInclude>> \o requestChangelogs(cfg),
                   closed |-> TRUE, formatted |-> FALSE]],
        status |-> 200]

\* the update of changelog-SIO2-all.xml; a root without its closing tag
\* leaves the content undefined and the write throws
buildRoot(f, cfg) ==
  IF f.root.exists
  THEN IF f.root.closed
       THEN [fs |-> [f EXCEPT !.root.includes =
                       @ \o SelectSeq(requestChangelogs(cfg),
                                      LAMBDA n : n \notin Range(f.root.includes))],
             status |-> 200]
       ELSE [fs |-> f, status |-> 500]
  ELSE [fs |-> [f EXCEPT !.root =
                  [exists |-> TRUE, includes |-> <<TagInclude>> \o requestChangelogs(cfg),
                   closed |-> TRUE, formatted |-> FALSE]],
        status |-> 200]

buildTagAlways(f, cfg) == [f EXCEPT !.tag = [exists |-> TRUE, token |-> cfg.version]]

\* if (!existsSync(tagPath)) writeFile(tagPath, ... tag="${config.version}.0.0")
buildTag(f, cfg) ==
  IF f.tag.exists THEN f
  ELSE [f EXCEPT !.tag = [exists |-> TRUE, token |-> cfg.version]]

\* POST /api/build-structure
buildStructure(f, cfg) == buildRoot(buildCategories(buildTag(f, cfg), cfg, 1), cfg)

(********************************* requests ********************************)
FileSpecs == [category : Categories, name : Units, content : Contents]
\* a request names at least one file (handleBuild refuses an empty one)
FileSeqs == UNION {[1..n -> FileSpecs] : n \in 1..MaxFiles}
\* a build request: author, version and the (category, unit, content) tuples
Configs == [author : Authors, version : Versions, files : FileSeqs]

\* details of a direct apply-fix request
CreateDetails ==
  {[NoDetails EXCEPT !.sqlFile = <<c, u>>, !.category = c, !.workingDirectory = TRUE] :
     c \in Categories, u \in Units}
    \cup {[NoDetails EXCEPT !.sqlFile = <<"tables", "dept">>, !.category = "tables"]}
AddDetails ==
  {[NoDetails EXCEPT !.xmlFile = <<d, u>>, !.changelogFile = m, !.workingDirectory = TRUE] :
     m \in ManifestNames, u \in Units, d \in {"", "tables"}}
FixRequests ==
  {[action |-> "create-xml-and-reference", details |-> d] : d \in CreateDetails}
    \cup {[action |-> "add-to-changelog", details |-> d] : d \in AddDetails}
    \cup {[action |-> "create-tag-database", details |-> NoDetails]}

(********************************** state **********************************)
NoFix == [active |-> FALSE, action |-> "none", details |-> NoDetails, status |-> 0,
          finding |-> Finding("none", "", NoName, NoName)]
NoHist ==
  [kind |-> "init", ok |-> TRUE, clash |-> FALSE, overlap |-> FALSE,
   origin |-> "empty", del |-> NoName, builds |-> 0, fixes |-> 0, envs |-> 0]
\* no request to the stateless endpoints made yet
NoIo == [request |-> "none", arg |-> <<>>, pc |-> "idle", touched |-> {},
         executed |-> <<>>, responses |-> <<>>,
         category |-> 0, file |-> 0, existingIncludes |-> <<>>,
         before |-> EmptyDirectory]
IdleReq == [pc |-> "idle", xmlFile |-> NoName, changelogFile |-> NoName,
            buf |-> NoManifest, status |-> 0]

\* the working directories one build request produces from an empty one
BuiltDirectories == {buildStructure(EmptyDirectory, cfg).fs : cfg \in Configs}

\* a check-and-fix session opens on an empty or a freshly built directory
Init ==
  /\ fs \in {EmptyDirectory} \cup BuiltDirectories
  /\ findings = <<>>
  /\ calls = <<>>
  /\ checked = FALSE
  /\ hist = [NoHist EXCEPT !.origin = IF fs = EmptyDirectory THEN "empty" ELSE "built"]
  /\ lastFix = NoFix
  /\ req = [i \in 1..2 |-> IdleReq]
  /\ io = NoIo

\* a build session opens on an empty directory
InitBuild ==
  /\ fs = EmptyDirectory
  /\ findings = <<>>
  /\ calls = <<>>
  /\ checked = FALSE
  /\ hist = NoHist
  /\ lastFix = NoFix
  /\ req = [i \in 1..2 |-> IdleReq]
  /\ io = NoIo

\* a request supplies content for a payload that exists with another content
Clash(f, cfg) ==
  \E i \in DOMAIN cfg.files :
    LET x == cfg.files[i] IN
      f.payload[x.category][x.name].exists
        /\ f.payload[x.category][x.name].content # sqlContent(x)

\* a request names a unit whose descriptor and payload both exist already
Overlap(f, cfg) ==
  \E i \in DOMAIN cfg.files :
    LET x == cfg.files[i] IN
      f.payload[x.category][x.name].exists /\ f.descr[x.category][x.name].exists

\* the caller invokes buildStructure(workingDirectory, config)
Build(cfg) ==
  /\ hist.builds < MaxBuilds
  /\ LET r == buildStructure(fs, cfg) IN
       /\ fs' = r.fs
       /\ hist' = [hist EXCEPT !.kind = "build", !.ok = (r.status = 200),
                     !.clash = Clash(fs, cfg), !.overlap = Overlap(fs, cfg),
                     !.origin = IF hist.origin \in {"empty", "built"} /\ r.status = 200
                                THEN "built" ELSE "other",
                     !.del = NoName,
                     !.builds = @ + 1]
  /\ findings' = <<>>
  /\ calls' = <<>>
  /\ checked' = FALSE
  /\ lastFix' = NoFix
  /\ UNCHANGED <<req, io>>

\* the caller runs StructureChecker.check
Check ==
  /\ ~checked
  /\ findings' = check(fs).logs
  /\ calls' = check(fs).calls
  /\ checked' = TRUE
  /\ UNCHANGED <<fs, hist, lastFix, req, io>>

\* one apply-fix request and its response
FixStep(action, details, finding) ==
  /\ hist.fixes < MaxFixes
  /\ LET r == applyFix(fs, action, details) IN
       /\ fs' = r.fs
       /\ lastFix' = [active |-> TRUE, action |-> action, details |-> details,
                      status |-> r.status, finding |-> finding]
       /\ hist' = [hist EXCEPT !.kind = "fix", !.ok = (r.status = 200),
                     !.clash = FALSE, !.overlap = FALSE, !.origin = "other",
                     !.del = NoName, !.fixes = @ + 1]
  /\ findings' = <<>>
  /\ calls' = <<>>
  /\ checked' = FALSE
  /\ UNCHANGED <<req, io>>

\* handleAction: the action offered for a logged finding is run
ApplySuggestion(i) ==
  /\ checked
  /\ i \in DOMAIN findings
  /\ getSuggestion(findings[i]) # NoSuggestion
  /\ FixStep(getSuggestion(findings[i]).action, getSuggestion(findings[i]).details,
             findings[i])

\* a direct POST /api/apply-fix
ApplyFix(r) == FixStep(r.action, r.details, NoFix.finding)

\* edits made outside the engine
EnvStep(f, origin, del) ==
  /\ hist.envs < MaxEnv
  /\ fs' = f
  /\ hist' = [hist EXCEPT !.kind = "env", !.ok = TRUE, !.clash = FALSE,
                !.overlap = FALSE, !.origin = origin, !.del = del, !.envs = @ + 1]
  /\ findings' = <<>>
  /\ calls' = <<>>
  /\ checked' = FALSE
  /\ lastFix' = NoFix
  /\ UNCHANGED <<req, io>>

EnvDeleteTag ==
  /\ fs.tag.exists
  /\ EnvStep([fs EXCEPT !.tag = NoTag], "other", NoName)

EnvDeletePayload(c, u) ==
  /\ fs.payload[c][u].exists
  /\ EnvStep([fs EXCEPT !.payload[c][u] = NoPayload],
             IF hist.origin = "built" THEN "payloadDeleted" ELSE "other", <<c, u>>)

EnvDeleteDescriptor(c, u) ==
  /\ fs.descr[c][u].exists
  /\ EnvStep([fs EXCEPT !.descr[c][u] = NoDescriptor], "other", NoName)

EnvDeleteInclude(m, i) ==
  /\ fs.manifest[m].exists
  /\ i \in DOMAIN fs.manifest[m].includes
  /\ EnvStep([fs EXCEPT !.manifest[m].includes =
                SubSeq(@, 1, i - 1) \o SubSeq(@, i + 1, Len(@))], "other", NoName)

\* a payload file is put into <c>/sql by hand, with no descriptor for it
EnvAddPayload(c, u) ==
  /\ fs.tag.exists
  /\ ~fs.payload[c][u].exists /\ ~fs.descr[c][u].exists
  /\ EnvStep([fs EXCEPT !.dirs = @ \cup {c},
                        !.payload[c][u] = [exists |-> TRUE, content |-> "sqlA"]],
             "other", NoName)

\* the version token of the tag file is edited into one that is not digits
EnvCorruptTag ==
  /\ fs.tag.exists
  /\ fs.tag.token \in DigitTokens
  /\ EnvStep([fs EXCEPT !.tag.token = "x5"], "other", NoName)

\* an include line of the root manifest is deleted
EnvDeleteRootInclude(i) ==
  /\ fs.root.exists
  /\ i \in DOMAIN fs.root.includes
  /\ fs' = [fs EXCEPT !.root.includes = SubSeq(@, 1, i - 1) \o SubSeq(@, i + 1, Len(@))]
  /\ hist' = [hist EXCEPT !.kind = "env", !.ok = TRUE, !.clash = FALSE,
                !.overlap = FALSE, !.origin = "other", !.del = NoName]
  /\ findings' = <<>>
  /\ calls' = <<>>
  /\ checked' = FALSE
  /\ lastFix' = NoFix
  /\ UNCHANGED <<req, io>>

\* a caller posts to /api/check-main-changelog
CheckMainChangelog(v) ==
  /\ ~checked
  /\ findings' = checkMainChangelog(fs, v)
  /\ calls' = <<<<"check-main-changelog", v>>>>
  /\ checked' = TRUE
  /\ UNCHANGED <<fs, hist, lastFix, req, io>>

\* the sql sub-directory of a category loses its read permission
EnvMakeUnreadable(c) ==
  /\ c \in fs.dirs
  /\ c \notin fs.unreadable
  /\ fs' = [fs EXCEPT !.unreadable = @ \cup {c}]
  /\ hist' = [hist EXCEPT !.kind = "env", !.ok = TRUE, !.clash = FALSE,
                !.overlap = FALSE, !.del = NoName]
  /\ findings' = <<>>
  /\ calls' = <<>>
  /\ checked' = FALSE
  /\ lastFix' = NoFix
  /\ UNCHANGED <<req, io>>

Next ==
  \/ Check
  \/ \E i \in 1..(2 * Len(UnitNames) * Len(CATEGORIES) + 1) : ApplySuggestion(i)
  \/ \E r \in FixRequests : ApplyFix(r)
  \/ EnvDeleteTag
  \/ \E c \in Categories, u \in Units : EnvDeletePayload(c, u)
  \/ \E c \in Categories, u \in Units : EnvDeleteDescriptor(c, u)
  \/ \E m \in ManifestNames, i \in 1..(MaxFiles + MaxFixes) : EnvDeleteInclude(m, i)

Spec == Init /\ [][Next]_vars

\* check runs on directories edited by hand, some of them partly unreadable
NextFault ==
  \/ Check
  \/ EnvDeleteTag
  \/ \E c \in Categories, u \in Units : EnvDeletePayload(c, u)
  \/ \E c \in Categories, u \in Units : EnvDeleteDescriptor(c, u)
  \/ \E m \in ManifestNames, i \in 1..MaxFiles : EnvDeleteInclude(m, i)
  \/ \E c \in Categories : EnvMakeUnreadable(c)
  \/ EnvCorruptTag

SpecFault == Init /\ [][NextFault]_vars

\* the root-declaration check on directories whose manifests were edited
NextRoot ==
  \/ \E v \in Versions : CheckMainChangelog(v)
  \/ \E m \in ManifestNames, i \in 1..MaxFiles : EnvDeleteInclude(m, i)
  \/ \E i \in 1..(Len(CATEGORIES) + 1) : EnvDeleteRootInclude(i)

SpecRoot == Init /\ [][NextRoot]_vars

\* a session in which payloads are added by hand, checked and fixed
NextOrphan ==
  \/ \E c \in Categories, u \in Units : EnvAddPayload(c, u)
  \/ Check
  \/ \E i \in 1..(2 * Len(CATEGORIES) * Len(UnitNames)) : ApplySuggestion(i)

SpecOrphan == Init /\ [][NextOrphan]_vars

NextBuild ==
  \/ \E cfg \in Configs : Build(cfg)
  \/ Check

SpecBuild == InitBuild /\ [][NextBuild]_vars

(********************* concurrent add-to-changelog requests *****************)
\* the handler of case 'add-to-changelog' runs up to its next await in one
\* step: fs.access, fs.readFile, fs.writeFile
ReqAccess(i) ==
  /\ req[i].pc = "start"
  /\ req' = [req EXCEPT ![i] =
       IF fs.manifest[req[i].changelogFile].exists
       THEN [@ EXCEPT !.pc = "accessed"]
       ELSE [@ EXCEPT !.pc = "done", !.status = 500]]
  /\ UNCHANGED <<fs, findings, calls, checked, hist, lastFix, io>>

ReqRead(i) ==
  /\ req[i].pc = "accessed"
  /\ LET m == fs.manifest[req[i].changelogFile] IN
       req' = [req EXCEPT ![i] =
         IF ~m.exists THEN [@ EXCEPT !.pc = "done", !.status = 500]
         ELSE IF alreadyIncluded(m, req[i].xmlFile) THEN [@ EXCEPT !.pc = "done", !.status = 200]
         ELSE IF ~m.closed THEN [@ EXCEPT !.pc = "done", !.status = 500]
         ELSE [@ EXCEPT !.pc = "read",
                        !.buf = xmlFormat([m EXCEPT !.includes = Append(@, req[i].xmlFile)])]]
  /\ UNCHANGED <<fs, findings, calls, checked, hist, lastFix, io>>

ReqWrite(i) ==
  /\ req[i].pc = "read"
  /\ fs' = [fs EXCEPT !.manifest[req[i].changelogFile] = req[i].buf]
  /\ req' = [req EXCEPT ![i] = [@ EXCEPT !.pc = "done", !.status = 200]]
  /\ UNCHANGED <<findings, calls, checked, hist, lastFix, io>>

\* two add-to-changelog requests for different descriptors and the same
\* manifest arrive on a built directory
InitConc ==
  /\ fs \in BuiltDirectories
  /\ findings = <<>>
  /\ calls = <<>>
  /\ checked = FALSE
  /\ hist = [NoHist EXCEPT !.origin = "built"]
  /\ lastFix = NoFix
  /\ \E m \in ManifestNames, x1 \in IncludePaths, x2 \in IncludePaths :
       /\ x1 # x2
       /\ req = [i \in 1..2 |->
                   [IdleReq EXCEPT !.pc = "start", !.changelogFile = m,
                                   !.xmlFile = IF i = 1 THEN x1 ELSE x2]]
  /\ io = NoIo

NextConc == \E i \in 1..2 : ReqAccess(i) \/ ReqRead(i) \/ ReqWrite(i)

SpecConc == InitConc /\ [][NextConc]_vars

(******************************* data model ********************************)
\* the version token of the tag file, when it has one
tagVersion(f) == IF f.tag.exists THEN f.tag.token ELSE NullVersion

\* the includes of category c's manifest that resolve to <c>/<u>.xml
declarations(f, c, u) ==
  LET m == manifestAt(f, tagVersion(f), c) IN
    IF m.exists
    THEN {i \in DOMAIN m.includes : m.includes[i] \in {<<c, u>>, <<"", u>>}}
    ELSE {}

Invariant1(f) ==
  \A c \in Categories, u \in Units :
    f.descr[c][u].exists => Cardinality(declarations(f, c, u)) = 1
Invariant2(f) ==
  \A c \in Categories :
    LET m == manifestAt(f, tagVersion(f), c) IN
      m.exists => \A i \in DOMAIN m.includes : includeTargetExists(f, c, m.includes[i])
Invariant3(f) ==
  \A c \in Categories, u \in Units :
    f.descr[c][u].exists =>
      f.descr[c][u].path \in Units /\ f.payload[c][f.descr[c][u].path].exists
Invariant4(f) ==
  \A c \in Categories, u \in Units : f.payload[c][u].exists => f.descr[c][u].exists
Invariant5(f) ==
  \A m \in ManifestNames :
    (f.manifest[m].exists /\ f.manifest[m].includes # <<>>) =>
      (f.root.exists /\ m \in Range(f.root.includes))
Invariant6(f) == f.tag.exists /\ f.tag.token \in DigitTokens
Invariant7(f) ==
  \A m \in ManifestNames : \A p \in IncludePaths : Count(f.manifest[m].includes, p) <= 1
Invariant8(f) ==
  \A c \in Categories, u \in Units :
    f.descr[c][u].exists => (f.descr[c][u].id # "" /\ f.descr[c][u].author # "")
DataModelInvariants(f) ==
  /\ Invariant1(f) /\ Invariant2(f) /\ Invariant3(f) /\ Invariant4(f)
  /\ Invariant5(f) /\ Invariant6(f) /\ Invariant7(f) /\ Invariant8(f)

(****************************** rename fixes *******************************)
RenameDetails ==
  {[NoDetails EXCEPT !.changelogFile = m, !.workingDirectory = TRUE] : m \in AllManifestNames}

\* a manifest renamed by hand, its reference in the root renamed with it
misnamed(f, old, new) ==
  [rename(f, old, new) EXCEPT !.root.includes = replaceFirst(@, old, new)]

\* built directories, as built or with one category manifest misnamed
MisnamedDirectories ==
  {misnamed(f, p[1], p[2]) : f \in BuiltDirectories,
     p \in {q \in ManifestNames \X AllManifestNames : q[1][2] = q[2][2]}}

InitRename ==
  /\ fs \in {d \in MisnamedDirectories : \E m \in AllManifestNames : d.manifest[m].exists}
  /\ findings = <<>>
  /\ calls = <<>>
  /\ checked = FALSE
  /\ hist = [NoHist EXCEPT !.origin = "other"]
  /\ lastFix = NoFix
  /\ req = [i \in 1..2 |-> IdleReq]
  /\ io = NoIo

RenameStep(action, d, r) ==
  /\ hist.fixes < MaxRenames
  /\ fs' = r.fs
  /\ lastFix' = [active |-> TRUE, action |-> action, details |-> d,
                 status |-> r.status, finding |-> NoFix.finding]
  /\ hist' = [hist EXCEPT !.kind = "rename", !.ok = (r.status = 200), !.fixes = @ + 1]
  /\ findings' = <<>>
  /\ calls' = <<>>
  /\ checked' = FALSE
  /\ UNCHANGED <<req, io>>

FixVersionNumber(d, rootWritable) ==
  RenameStep("fix-version-number", d, fixVersionNumber(fs, d, rootWritable))

FixCategoryName(d, rootWritable) ==
  RenameStep("fix-category-name", d, fixCategoryName(fs, d, rootWritable))

NextRename ==
  \/ Check
  \/ \E d \in RenameDetails, w \in BOOLEAN : FixVersionNumber(d, w)
  \/ \E d \in RenameDetails, w \in BOOLEAN : FixCategoryName(d, w)

SpecRename == InitRename /\ [][NextRename]_vars

(************************** stateless endpoints ****************************)
\* the paths a validate-directory request may carry: none, the working
\* directory, its tag file, a path that does not exist
DirectoryPaths == {"", "work", "work/tag-database.xml", "nowhere"}

\* fs.stat(path): "dir", "file", or "ENOENT" when stat throws
stat(f, path) ==
  CASE path = "work" -> "dir"
    [] path = "work/tag-database.xml" -> IF f.tag.exists THEN "file" ELSE "ENOENT"
    [] OTHER -> "ENOENT"

validateDirectoryLastResort(f, path) ==
  IF path = "" THEN [valid |-> FALSE, error |-> "No directory path provided"]
  ELSE IF stat(f, path) = "dir" THEN [valid |-> TRUE, error |-> ""]
  ELSE IF stat(f, path) = "file" THEN [valid |-> FALSE, error |-> "Not a directory"]
  ELSE [valid |-> TRUE, error |-> ""]

\* POST /api/validate-directory
validateDirectory(f, path) ==
  IF path = "" THEN [valid |-> FALSE, error |-> "No directory path provided"]
  ELSE IF stat(f, path) = "ENOENT"
       THEN [valid |-> FALSE, error |-> "Directory validation failed"]
       ELSE IF stat(f, path) # "dir"
            THEN [valid |-> FALSE, error |-> "Not a directory"]
            ELSE [valid |-> TRUE, error |-> ""]

\* a caller posts to /api/validate-directory
ValidateDirectory(path) ==
  /\ io' = [NoIo EXCEPT !.request = "validate-directory", !.arg = path,
                        !.responses = <<validateDirectory(fs, path)>>]
  /\ UNCHANGED <<fs, findings, calls, checked, hist, lastFix, req>>

(************************ paths written by apply-fix ************************)
\* a path is the sequence of its segments below the file-system root
WorkingDirectoryPath == <<"srv", "work">>
\* the segment changelog-49-TABLES.xml
Changelog49Tables == <<"changelog", "49", "tables">>

RECURSIVE normalize(_)
\* path.join's normalization: a ".." segment removes the segment before it
normalize(p) ==
  IF p = <<>> THEN <<>>
  ELSE LET h == normalize(SubSeq(p, 1, Len(p) - 1))
           l == p[Len(p)]
       IN  IF l = ".."
           THEN IF h = <<>> THEN <<>> ELSE SubSeq(h, 1, Len(h) - 1)
           ELSE Append(h, l)

\* join(workingDirectory, ...segments)
join(dir, segments) == normalize(dir \o segments)

\* p names a file below directory dir
inside(dir, p) == Len(p) > Len(dir) /\ SubSeq(p, 1, Len(dir)) = dir

\* apply-fix requests by the paths their details name; wd = <<>> is an
\* absent workingDirectory
PathRequests ==
  {[action |-> "create-xml-and-reference", wd |-> w, category |-> c, unit |-> u,
    changelogFile |-> <<>>] :
     w \in {<<>>, WorkingDirectoryPath}, c \in {<<"tables">>, <<"..">>}, u \in Units}
    \cup
  {[action |-> "add-to-changelog", wd |-> w, category |-> <<>>, unit |-> u,
    changelogFile |-> m] :
     w \in {<<>>, WorkingDirectoryPath},
     m \in {<<Changelog49Tables>>, <<"..", Changelog49Tables>>}, u \in Units}
    \cup
  {[action |-> "create-directory", wd |-> <<>>, category |-> <<"tables">>,
    unit |-> "dept", changelogFile |-> <<>>]}

\* the files case 'create-xml-and-reference' writes: xmlPath, and the
\* changelog when it exists
createXmlPaths(f, r) ==
  IF r.wd = <<>> THEN {}
  ELSE LET xmlPath == join(r.wd, r.category \o <<<<r.unit, "xml">>>>)
           dirExists == IF inside(r.wd, xmlPath) THEN "tables" \in f.dirs ELSE TRUE
       IN  IF ~dirExists THEN {}
           ELSE {xmlPath} \cup
                  (IF r.category = <<"tables">> /\ f.manifest[<<"49", "tables">>].exists
                   THEN {join(r.wd, <<Changelog49Tables>>)} ELSE {})

\* the file case 'add-to-changelog' writes; outsideExists: a changelog of
\* that name exists beside the working directory
addToChangelogPaths(f, r, outsideExists) ==
  IF r.wd = <<>> THEN {}
  ELSE LET changelogPath == join(r.wd, r.changelogFile)
           m == f.manifest[<<"49", "tables">>]
       IN  IF inside(r.wd, changelogPath)
           THEN IF m.exists /\ ~alreadyIncluded(m, <<"tables", r.unit>>) /\ m.closed
                THEN {changelogPath} ELSE {}
           ELSE IF outsideExists THEN {changelogPath} ELSE {}

\* POST /api/apply-fix: the files it creates or modifies
applyFixPaths(f, r, outsideExists) ==
  CASE r.action = "create-xml-and-reference" -> createXmlPaths(f, r)
    [] r.action = "add-to-changelog" -> addToChangelogPaths(f, r, outsideExists)
    [] OTHER -> {}

\* a caller posts to /api/apply-fix
ApplyFixPaths(r, outsideExists) ==
  /\ io' = [NoIo EXCEPT !.request = "apply-fix", !.arg = r,
                        !.touched = applyFixPaths(fs, r, outsideExists)]
  /\ UNCHANGED <<fs, findings, calls, checked, hist, lastFix, req>>

(******************** one apply-fix request, step by step ******************)
dispatchSilentDefault(action, d) ==
  CASE action = "create-xml-and-reference" ->
         IF d.sqlFile = NoName \/ d.category = "" \/ ~d.workingDirectory
         THEN [pc |-> "done", responses |-> <<400>>]
         ELSE [pc |-> "fileops", responses |-> <<>>]
    [] action = "add-to-changelog" ->
         IF d.xmlFile = NoName \/ d.changelogFile = NoName \/ ~d.workingDirectory
         THEN [pc |-> "done", responses |-> <<400>>]
         ELSE [pc |-> "fileops", responses |-> <<>>]
    [] OTHER -> [pc |-> "done", responses |-> <<>>]

\* switch (action): the synchronous part of the handler up to its first
\* await; the responses it has sent and where it goes on
dispatch(action, d) ==
  CASE action = "create-xml-and-reference" ->
         IF d.sqlFile = NoName \/ d.category = "" \/ ~d.workingDirectory
         THEN [pc |-> "done", responses |-> <<400>>]
         ELSE [pc |-> "fileops", responses |-> <<>>]
    [] action = "add-to-changelog" ->
         IF d.xmlFile = NoName \/ d.changelogFile = NoName \/ ~d.workingDirectory
         THEN [pc |-> "done", responses |-> <<400>>]
         ELSE [pc |-> "fileops", responses |-> <<>>]
    [] OTHER -> [pc |-> "done", responses |-> <<400>>]

\* the request arrives at POST /api/apply-fix
Receive(r) ==
  /\ io.pc = "idle"
  /\ io' = [NoIo EXCEPT !.request = "apply-fix", !.arg = r, !.pc = "switch"]
  /\ UNCHANGED <<fs, findings, calls, checked, hist, lastFix, req>>

\* the handler runs up to its first await
Dispatch ==
  /\ io.pc = "switch"
  /\ io' = [io EXCEPT !.pc = dispatch(io.arg.action, io.arg.details).pc,
                      !.responses = dispatch(io.arg.action, io.arg.details).responses]
  /\ UNCHANGED <<fs, findings, calls, checked, hist, lastFix, req>>

\* the file operations settle: res.json({success: true}), or the outer
\* catch answers 500
FileOps ==
  /\ io.pc = "fileops"
  /\ fs' = applyFix(fs, io.arg.action, io.arg.details).fs
  /\ io' = [io EXCEPT !.pc = "done",
                      !.responses = Append(@, applyFix(fs, io.arg.action,
                                                       io.arg.details).status)]
  /\ UNCHANGED <<findings, calls, checked, hist, lastFix, req>>

NextServe ==
  \/ \E r \in FixRequests : Receive(r)
  \/ Dispatch
  \/ FileOps

\* the event loop runs a handler that can run, and file operations settle
SpecServe == Init /\ [][NextServe]_vars /\ WF_vars(Dispatch) /\ WF_vars(FileOps)

(**************** one build-structure request, write by write **************)
\* the request arrives at POST /api/build-structure
BuildReceive(cfg) ==
  /\ io.pc = "idle"
  /\ io' = [NoIo EXCEPT !.request = "build-structure", !.arg = cfg, !.pc = "tag",
                        !.before = fs]
  /\ UNCHANGED <<fs, findings, calls, checked, hist, lastFix, req>>

\* if (!existsSync(tagPath)) await fs.writeFile(tagPath, tagContent)
BuildTag ==
  /\ io.request = "build-structure" /\ io.pc = "tag"
  /\ fs' = buildTag(fs, io.arg)
  /\ io' = [io EXCEPT !.pc = "category", !.category = 1]
  /\ UNCHANGED <<findings, calls, checked, hist, lastFix, req>>

\* for (const category of config.categories): a category without files is
\* skipped; otherwise its directories are made and its manifest is read
BuildOpenCategory ==
  /\ io.request = "build-structure" /\ io.pc = "category"
  /\ IF io.category > Len(CATEGORIES)
     THEN /\ io' = [io EXCEPT !.pc = "root"]
          /\ fs' = fs
     ELSE LET c == CATEGORIES[io.category]
              m == buildChangelog(io.arg, c)
          IN  IF filesOf(io.arg, c) = <<>>
              THEN /\ io' = [io EXCEPT !.category = @ + 1]
                   /\ fs' = fs
              ELSE /\ fs' = [fs EXCEPT !.dirs = @ \cup {c}]
                   /\ io' = [io EXCEPT !.pc = "descriptor", !.file = 1,
                                       !.existingIncludes =
                                         IF fs.manifest[m].exists
                                         THEN fs.manifest[m].includes ELSE <<>>]
  /\ UNCHANGED <<findings, calls, checked, hist, lastFix, req>>

\* if (!existsSync(xmlPath)) await fs.writeFile(xmlPath, xmlContent)
BuildDescriptor ==
  /\ io.request = "build-structure" /\ io.pc = "descriptor"
  /\ LET c == CATEGORIES[io.category] IN
       fs' = writeDescriptor(fs, c, filesOf(io.arg, c)[io.file], io.arg.author)
  /\ io' = [io EXCEPT !.pc = "payload"]
  /\ UNCHANGED <<findings, calls, checked, hist, lastFix, req>>

\* if (!existsSync(fileSqlPath)) await fs.writeFile(fileSqlPath, sqlContent);
\* then the include is pushed and the loop goes on
BuildPayload ==
  /\ io.request = "build-structure" /\ io.pc = "payload"
  /\ LET c == CATEGORIES[io.category]
         files == filesOf(io.arg, c)
     IN  /\ fs' = writePayload(fs, c, files[io.file])
         /\ io' = [io EXCEPT !.existingIncludes = addInclude(@, <<c, files[io.file].name>>),
                             !.file = @ + 1,
                             !.pc = IF io.file + 1 > Len(files) THEN "manifest"
                                    ELSE "descriptor"]
  /\ UNCHANGED <<findings, calls, checked, hist, lastFix, req>>

\* await fs.writeFile(categoryChangelogPath, categoryChangelogContent)
BuildManifest ==
  /\ io.request = "build-structure" /\ io.pc = "manifest"
  /\ fs' = [fs EXCEPT !.manifest[buildChangelog(io.arg, CATEGORIES[io.category])] =
              [exists |-> TRUE, includes |-> io.existingIncludes, closed |-> TRUE,
               formatted |-> FALSE]]
  /\ io' = [io EXCEPT !.pc = "category", !.category = @ + 1]
  /\ UNCHANGED <<findings, calls, checked, hist, lastFix, req>>

\* await fs.writeFile(mainChangelogPath, mainChangelogContent); res.json(...)
BuildMain ==
  /\ io.request = "build-structure" /\ io.pc = "root"
  /\ fs' = buildRoot(fs, io.arg).fs
  /\ io' = [io EXCEPT !.pc = "done", !.responses = <<buildRoot(fs, io.arg).status>>]
  /\ UNCHANGED <<findings, calls, checked, hist, lastFix, req>>

\* a check run made while the build request is in progress
CheckDuringBuild ==
  /\ io.request = "build-structure" /\ io.pc \notin {"idle", "done"}
  /\ Check

NextOverlap ==
  \/ \E cfg \in Configs : BuildReceive(cfg)
  \/ BuildTag
  \/ BuildOpenCategory
  \/ BuildDescriptor
  \/ BuildPayload
  \/ BuildManifest
  \/ BuildMain
  \/ CheckDuringBuild

SpecOverlap == InitBuild /\ [][NextOverlap]_vars

(**************************** liquibase service ****************************)
\* the keys of COMMAND_CONFIG
SupportedCommands ==
  {"status", "validate", "updateSQL", "update", "updateCount", "rollback",
   "rollbackCount", "tag"}
\* property names every object literal inherits from Object.prototype
InheritedKeys == {"constructor", "toString"}
\* the commands a request may carry; "" stands for an absent command
Commands == SupportedCommands \cup InheritedKeys \cup {"", "drop"}
\* options of a request: which of count and tag it carries
Options == [count : BOOLEAN, tag : BOOLEAN]

\* COMMAND_CONFIG[command].requiredParams, empty without requiresParams
requiredParams(command) ==
  CASE command \in {"updateCount", "rollbackCount"} -> {"count"}
    [] command \in {"rollback", "tag"} -> {"tag"}
    [] OTHER -> {}

\* COMMAND_CONFIG[command] is truthy: own keys, and inherited ones
configFound(command) == command \in SupportedCommands \cup InheritedKeys

hasParam(options, param) == IF param = "count" THEN options.count ELSE options.tag

\* validateCommand(command, options): TRUE when it does not throw
validateCommand(command, options) ==
  /\ configFound(command)
  /\ \A param \in requiredParams(command) : hasParam(options, param)

\* POST /execute: the commands run by execAsync and the response status;
\* exitOk: whether the liquibase process exits with code 0
execute(command, options, exitOk) ==
  IF validateCommand(command, options)
  THEN [executed |-> <<command>>, responses |-> <<IF exitOk THEN 200 ELSE 500>>]
  ELSE [executed |-> <<>>, responses |-> <<500>>]

\* a caller posts to /execute of the liquibase service
Execute(command, options, exitOk) ==
  /\ io' = [NoIo EXCEPT !.request = "execute", !.arg = <<command, options>>,
                        !.executed = execute(command, options, exitOk).executed,
                        !.responses = execute(command, options, exitOk).responses]
  /\ UNCHANGED <<fs, findings, calls, checked, hist, lastFix, req>>

NextApi ==
  \/ \E r \in PathRequests, outsideExists \in BOOLEAN : ApplyFixPaths(r, outsideExists)
  \/ \E path \in DirectoryPaths : ValidateDirectory(path)
  \/ \E command \in Commands, options \in Options, exitOk \in BOOLEAN :
       Execute(command, options, exitOk)

SpecApi == Init /\ [][NextApi]_vars

(********************************* claims **********************************)
\* C1: after buildStructure calls that all succeeded, starting from an empty
\* working directory, a full check run reports zero findings.
C1_RoundTrip == (checked /\ hist.origin = "built") => findings = <<>>

C3_Idempotent ==
  [][(hist'.fixes = hist.fixes + 1 /\ lastFix.active
        /\ lastFix'.action = lastFix.action /\ lastFix'.details = lastFix.details)
       => (fs' = fs /\ (lastFix.status = 200 => lastFix'.status = 200))]_vars

\* C4: after the action the resolver offers for a finding F has been applied,
\* a fresh check run does not report F again.
C4_Convergence ==
  (checked /\ lastFix.active /\ lastFix.finding.tmpl # "none")
    => lastFix.finding \notin Range(findings)

C6_NoLostUpdate ==
  (\A i \in 1..2 : req[i].pc = "done" /\ req[i].status = 200)
    => \A i \in 1..2 : req[i].xmlFile \in Range(fs.manifest[req[i].changelogFile].includes)

\* C7: a check run that ends with zero findings implies that the eight
\* data-model invariants hold on the working directory.
C7_CleanRunMeansInvariants ==
  (checked /\ findings = <<>>) => DataModelInvariants(fs)

\* C8: with the tag file absent a check run reports exactly MissingTagFile
\* and makes no checkOrphaned or checkReferences call.
C8_TagAbsentStopsRun ==
  (checked /\ ~fs.tag.exists) => (findings = <<MissingTagMsg>> /\ calls = <<>>)

\* C9: after builds and the deletion of one unit's payload file, the check
\* run reports exactly one finding, a MissingPayload for that unit's descriptor.
C9_OnlyMissingPayload ==
  (checked /\ hist.origin = "payloadDeleted") =>
    /\ Len(findings) = 1
    /\ Kind(findings[1]) = "MissingPayload"
    /\ hist.del \in {findings[1].file, findings[1].ref}

\* no manifest of the directory lists an include twice
NoSecondInclude(f) ==
  /\ \A m \in ManifestNames : \A p \in IncludePaths : Count(f.manifest[m].includes, p) <= 1
  /\ \A m \in ManifestNames : Count(f.root.includes, m) <= 1
  /\ \A c \in Categories, u \in Units :
       f.descr[c][u].exists => \E v \in Versions : <<c, u>> \in Range(f.manifest[<<v, c>>].includes)
  /\ \A m \in ManifestNames :
       f.manifest[m].exists => m \in Range(f.root.includes)

namedInclude(lf) ==
  IF lf.action = "add-to-changelog" THEN lf.details.xmlFile
  ELSE <<lf.details.category, lf.details.sqlFile[2]>>

C13_RenameComplete ==
  [][hist'.kind = "rename" /\ hist'.fixes = hist.fixes + 1 =>
       /\ lastFix'.status = 200 =>
            \A n \in AllManifestNames :
              (fs.manifest[n].exists /\ ~fs'.manifest[n].exists)
                => n \notin Range(fs'.root.includes)
       /\ lastFix'.status # 200 => fs' = fs]_vars

\* the findings the three rules compute on the directory, each on its own
ruleFindings(f) ==
  LET v == tagCheck(f).version IN
    UNION {Range(checkOrphaned([f EXCEPT !.unreadable = {}], c, v).logs)
             \cup Range(checkReferences(f, c, v).logs) : c \in Categories}
      \cup Range(checkMainChangelog(f, v))

\* C14: a check run reports every finding that one of its rules computes on
\* the directory, whatever the other rules and categories find or fail on.
C14_AllFindingsReported ==
  checked => ruleFindings(fs) \subseteq Range(findings)

\* C19: a check on a category whose sql sub-directory or manifest is missing
\* or unreadable does not fail: both endpoints answer with findings.
C19_NoHardError ==
  checked =>
    /\ \A i \in DOMAIN findings : findings[i].tmpl # "FailedToCheck"
    /\ \A c \in Categories :
         ~checkOrphaned(fs, c, tagCheck(fs).version).error
           /\ ~checkReferences(fs, c, tagCheck(fs).version).error

\* C15: the tag check reports MissingTagFile exactly when the tag file is
\* absent and InvalidVersionNumber exactly when it is present with a token
\* that does not parse; with a well-formed token it reports neither and the
\* run uses that version.
C15_TagFailuresDistinct ==
  checked =>
    /\ (MissingTagMsg \in Range(findings)) = ~fs.tag.exists
    /\ (\E i \in DOMAIN findings : Kind(findings[i]) = "InvalidVersionNumber")
         = (fs.tag.exists /\ fs.tag.token \notin DigitTokens)
    /\ (fs.tag.exists /\ fs.tag.token \in DigitTokens)
         => tagCheck(fs) = [logs |-> <<>>, version |-> fs.tag.token]

\* C16: check-main-changelog reports UndeclaredCategoryManifest once for each
\* category manifest that exists, has an include and is not included by the
\* root manifest, and not for any other.
C16_RootDeclarations ==
  \A v \in Versions :
    (checked /\ calls = <<<<"check-main-changelog", v>>>>) =>
      \A c \in Categories :
        Count(findings, ChangelogNotDeclaredMsg(v, c)) =
          IF /\ fs.manifest[<<v, c>>].exists
             /\ fs.manifest[<<v, c>>].includes # <<>>
             /\ <<v, c>> \notin Range(fs.root.includes)
          THEN 1 ELSE 0

\* C17: with a well-formed tag, the run's check-references findings of a
\* category are one DanglingReference for each include of its manifest whose
\* target is absent and one DanglingPayloadReference for each descriptor
\* whose payload path does not resolve, and none for one that resolves.
C17_ReferencesExact ==
  (checked /\ fs.tag.exists /\ fs.tag.token \in DigitTokens) =>
    \A c \in Categories :
      LET m == fs.manifest[<<fs.tag.token, c>>] IN
        /\ \A p \in IncludePaths :
             Cardinality({i \in DOMAIN findings :
                            /\ Kind(findings[i]) = "DanglingReference"
                            /\ findings[i].category = c
                            /\ findings[i].file = p}) =
               IF (IF p[1] = "" THEN fs.descr[c][p[2]].exists
                                ELSE fs.descr[p[1]][p[2]].exists)
               THEN 0 ELSE Count(m.includes, p)
        /\ \A u \in Units :
             Cardinality({i \in DOMAIN findings :
                            /\ Kind(findings[i]) = "DanglingPayloadReference"
                            /\ findings[i].ref = <<c, u>>}) =
               IF fs.descr[c][u].exists /\ ~fs.payload[c][fs.descr[c][u].path].exists
               THEN 1 ELSE 0
\* a run over a manifest with an include in another category's form that
\* dangles
C17_Witness ==
  /\ checked /\ fs.tag.exists /\ fs.tag.token \in DigitTokens
  /\ \E i \in DOMAIN findings : Kind(findings[i]) = "DanglingReference"
  /\ \E c \in Categories, u \in Units :
       LET m == fs.manifest[<<fs.tag.token, c>>] IN
         <<c, u>> \in Range(m.includes) /\ fs.descr[c][u].exists

C20_TagImmutable ==
  [][fs.tag.exists => fs'.tag = fs.tag]_vars
\* a successful build given another version than the tag file holds
C20_Witness ==
  /\ hist.kind = "build" /\ hist.ok /\ hist.builds >= 2
  /\ \E m \in ManifestNames : fs.manifest[m].exists /\ m[1] # fs.tag.token

\* C21: when a rename fix stopped after the rename and before the update of
\* the root manifest, the following check run reports at least one finding.
C21_PartialFixIsReported ==
  (/\ checked
   /\ hist.kind = "rename" /\ lastFix.status = 500
   /\ \E n \in AllManifestNames :
        n \in Range(fs.root.includes) /\ ~fs.manifest[n].exists)
    => findings # <<>>

C24_OnlySupportedCommands ==
  io.request = "execute" =>
    LET command == io.arg[1]
        options == io.arg[2]
        ok == /\ command \in SupportedCommands
              /\ (command \in {"updateCount", "rollbackCount"} => options.count)
              /\ (command \in {"rollback", "tag"} => options.tag)
    IN  /\ io.executed # <<>> => ok
        /\ ~ok => (io.executed = <<>> /\ io.responses # <<200>>)

\* C22: every file an apply-fix request creates or modifies lies inside the
\* working directory the request names.
C22_ConfinedToWorkingDirectory ==
  io.request = "apply-fix" => \A p \in io.touched : inside(io.arg.wd, p)

C26_NoDuplicateDeclaration ==
  hist.envs = 0 =>
    \A m \in ManifestNames, u \in Units :
      Cardinality({i \in DOMAIN fs.manifest[m].includes :
                     fs.manifest[m].includes[i] \in {<<m[2], u>>, <<"", u>>}}) <= 1

\* C27: the action the resolver offers for a finding of a check run is never
\* refused by the executor as an unknown action or for a missing field.
C27_OfferedActionAccepted ==
  (lastFix.active /\ lastFix.finding.tmpl # "none") => lastFix.status # 400

\* C28: a build on a directory whose tag file exists with version V writes
\* category manifests of version V only, whatever version the request names.
C28_ManifestsUnderTagVersion ==
  [][(hist'.builds = hist.builds + 1 /\ fs.tag.exists)
       => \A m \in ManifestNames :
            fs'.manifest[m] # fs.manifest[m] => m[1] = fs.tag.token]_vars

\* C29: every finding of a check run made while a build is in progress is a
\* finding a check of the directory before the build, or a check of the
\* directory after it, reports.
C29_NoIntermediateFinding ==
  (io.request = "build-structure" /\ io.pc = "done" /\ checked)
    => Range(findings) \subseteq
         (Range(check(io.before).logs) \cup Range(check(fs).logs))
\* the writes of the request, taken one by one, build what buildStructure builds
BuildSteps_Refine ==
  (io.request = "build-structure" /\ io.pc = "done")
    => fs = buildStructure(io.before, io.arg).fs

\* C30: after the action offered for a payload without a descriptor has been
\* applied with success, the new descriptor exists and is declared in the
\* category manifest of the tag's version, and a fresh check run reports no
\* finding for that unit.
C30_OrphanFixConverges ==
  (checked /\ lastFix.active /\ lastFix.finding.tmpl = "SqlNoXml" /\ lastFix.status = 200)
    => LET c == lastFix.finding.file[1]
           u == lastFix.finding.file[2]
       IN  /\ fs.descr[c][u].exists
           /\ isDeclared(declaredFiles(fs, tagVersion(fs), c), c, u)
           /\ \A i \in DOMAIN findings :
                findings[i].file # <<c, u>> /\ findings[i].ref # <<c, u>>

====
